---- MODULE Spec2Model ----
(***************************************************************************)
(* Model of service/uci/jni/src/uci_jni_android_new.rs: the TLV and        *)
(* phase-list parsers, the controlee list resolver inside                  *)
(* native_controller_multicast_list_update, and the facade around them.    *)
(*                                                                         *)
(* The state records the last native call (op, args), its result (ret)     *)
(* and the UciManager operations it invoked (mgr_calls).  dispatcher is    *)
(* the process-wide Dispatcher slot, issued the handles that successful    *)
(* creations have returned so far, and threads the position and locals of  *)
(* each thread that is inside a native call.                               *)
(***************************************************************************)
EXTENDS Integers, Sequences, FiniteSets, TLC

VARIABLES op, args, ret, mgr_calls, dispatcher, issued, threads

vars == <<op, args, ret, mgr_calls, dispatcher, issued, threads>>

(***************************************************************************)
(* Bounds of the model.                                                    *)
(***************************************************************************)
\* longest byte buffer handed to the TLV parsers
MaxBufLen == 7
\* largest record count handed to the TLV parsers
MaxParams == 3

\* largest number of phases a caller declares or a buffer holds
MaxPhases == 2

\* largest number of controlees in a multicast list update
MaxControlee == 2

\* longest TLV buffer and config id array handed to the facade
MaxFacadeBufLen == 4

\* number of addresses a Dispatcher instance can be placed at
MaxAddresses == 2

\* number of successful creations followed in one behaviour
MaxCreates == 2

\* number of host threads calling concurrently
MaxThreads == 2

\* byte values the TLV buffers are built from: small lengths, tags that
\* are valid and invalid radar tags, and a length no buffer can satisfy
Bytes == {0, 1, 2, 255}

\* the record counts (jint) a caller passes, negative ones included
ParamCounts == (-1) .. MaxParams

TlvBuffers == UNION {[1 .. n -> Bytes] : n \in 0 .. MaxBufLen}

(***************************************************************************)
(* Results: Rust's Result<T, Error>.                                       *)
(***************************************************************************)
Ok(v) == [ok |-> TRUE, val |-> v]

Err(e) == [ok |-> FALSE, err |-> e]

BadParameters == "BadParameters"

\* the part of a slice from 0-based index n on: bytes.get(n..) / &bytes[n..]
SliceFrom(bytes, n) == SubSeq(bytes, n + 1, Len(bytes))

(***************************************************************************)
(* Dispatcher: the process-wide slot holding the chip registry.            *)
(***************************************************************************)
NoDispatcher == [state |-> "Uninitialized", chips |-> {}]

LiveDispatcher(chips) == [state |-> "Live", chips |-> chips]

\* the Dispatcher after its teardown
DestroyedDispatcher == [state |-> "Destroyed", chips |-> {}]

\* the error of an operation attempted outside the Live state
StateError(d) == IF d.state = "Destroyed" THEN "AlreadyDestroyed" ELSE "NotInitialized"

\* Dispatcher::get_uci_manager: the manager of chip_id in the registry of
\* the Live Dispatcher
Dispatcher_get_uci_manager(d, chip_id) ==
    IF d.state # "Live" THEN Err(StateError(d))
    ELSE IF chip_id \notin d.chips THEN Err(BadParameters)
    ELSE Ok(chip_id)

(***************************************************************************)
(* Integer conversions (`as`)                                              *)
(***************************************************************************)
\* jbyte as u8
AsU8(b) == b % 256

\* jint as u32, held as its two 16-bit halves
AsU32(x) == [hi |-> (x \div 65536) % 65536, lo |-> x % 65536]

(***************************************************************************)
(* TLV codec                                                               *)
(***************************************************************************)
TLV_HEADER_SIZE == 2

\* RawAppConfigTlv::parse with the value taken one byte too early
RawAppConfigTlv_parse_OffByOne(bytes) ==
    IF Len(bytes) < TLV_HEADER_SIZE THEN Err("InvalidLength")
    ELSE IF Len(bytes) - TLV_HEADER_SIZE < bytes[2] THEN Err("InvalidLength")
    ELSE Ok([cfg_id |-> bytes[1],
             v |-> SubSeq(bytes, TLV_HEADER_SIZE, TLV_HEADER_SIZE + bytes[2] - 1)])

\* RawAppConfigTlv::parse: one byte of tag, one byte of length, then
\* `length` bytes of value; bytes after the record are left alone.
RawAppConfigTlv_parse(bytes) ==
    IF Len(bytes) < TLV_HEADER_SIZE THEN Err("InvalidLength")
    ELSE IF Len(bytes) - TLV_HEADER_SIZE < bytes[2] THEN Err("InvalidLength")
    ELSE Ok([cfg_id |-> bytes[1],
             v |-> SubSeq(bytes, TLV_HEADER_SIZE + 1, TLV_HEADER_SIZE + bytes[2])])

\* the tags RadarConfigTlvType defines
RadarConfigTlvType == 0 .. 11

\* RadarConfigTlv::parse: as above, and the tag must be a RadarConfigTlvType
RadarConfigTlv_parse(bytes) ==
    IF Len(bytes) < TLV_HEADER_SIZE THEN Err("InvalidLength")
    ELSE IF bytes[1] \notin RadarConfigTlvType THEN Err("InvalidEnumValue")
    ELSE IF Len(bytes) - TLV_HEADER_SIZE < bytes[2] THEN Err("InvalidLength")
    ELSE Ok([cfg_id |-> bytes[1],
             v |-> SubSeq(bytes, TLV_HEADER_SIZE + 1, TLV_HEADER_SIZE + bytes[2])])

\* the final check left out: whatever was parsed is returned
TlvLenCheck_Missing(parsed_tlvs_len, received_tlvs_len, tlvs) == Ok(tlvs)

\* the final check of both parsers: everything received was parsed
TlvLenCheck(parsed_tlvs_len, received_tlvs_len, tlvs) ==
    IF parsed_tlvs_len # received_tlvs_len THEN Err(BadParameters) ELSE Ok(tlvs)

\* the loop `for _ in 0..no_of_params` of parse_app_config_tlv_vec, with
\* `remaining` iterations to go (none when no_of_params <= 0)
RECURSIVE AppConfigLoop(_, _, _, _, _)
AppConfigLoop(remaining, byte_array, parsed_tlvs_len, tlvs, received_tlvs_len) ==
    IF remaining <= 0 THEN TlvLenCheck(parsed_tlvs_len, received_tlvs_len, tlvs)
    ELSE LET tlv == RawAppConfigTlv_parse(byte_array) IN
         IF ~tlv.ok THEN Err(BadParameters)
         ELSE IF Len(tlv.val.v) + TLV_HEADER_SIZE > Len(byte_array) THEN Err(BadParameters)
         ELSE AppConfigLoop(remaining - 1,
                            SliceFrom(byte_array, Len(tlv.val.v) + TLV_HEADER_SIZE),
                            parsed_tlvs_len + Len(tlv.val.v) + TLV_HEADER_SIZE,
                            Append(tlvs, tlv.val),
                            received_tlvs_len)

parse_app_config_tlv_vec(no_of_params, byte_array) ==
    AppConfigLoop(no_of_params, byte_array, 0, <<>>, Len(byte_array))

RECURSIVE RadarConfigLoop(_, _, _, _, _)
RadarConfigLoop(remaining, byte_array, parsed_tlvs_len, tlvs, received_tlvs_len) ==
    IF remaining <= 0 THEN TlvLenCheck(parsed_tlvs_len, received_tlvs_len, tlvs)
    ELSE LET tlv == RadarConfigTlv_parse(byte_array) IN
         IF ~tlv.ok THEN Err(BadParameters)
         ELSE IF Len(tlv.val.v) + TLV_HEADER_SIZE > Len(byte_array) THEN Err(BadParameters)
         ELSE RadarConfigLoop(remaining - 1,
                              SliceFrom(byte_array, Len(tlv.val.v) + TLV_HEADER_SIZE),
                              parsed_tlvs_len + Len(tlv.val.v) + TLV_HEADER_SIZE,
                              Append(tlvs, tlv.val),
                              received_tlvs_len)

parse_radar_config_tlv_vec(no_of_params, byte_array) ==
    RadarConfigLoop(no_of_params, byte_array, 0, <<>>, Len(byte_array))

(***************************************************************************)
(* TLV parsers: the caller's inputs are drawn first, then one of the two   *)
(* parsers is applied to them.                                             *)
(***************************************************************************)
Pending == [ok |-> FALSE, err |-> "pending"]

InitTlv ==
    /\ op = "none"
    /\ args \in [no_of_params : ParamCounts, byte_array : TlvBuffers]
    /\ ret = Pending
    /\ mgr_calls = <<>>
    /\ dispatcher = NoDispatcher
    /\ issued = <<>>
    /\ threads = <<>>

ParseAppConfigTlvVec ==
    /\ op = "none"
    /\ op' = "parse_app_config_tlv_vec"
    /\ ret' = parse_app_config_tlv_vec(args.no_of_params, args.byte_array)
    /\ UNCHANGED <<args, mgr_calls, dispatcher, issued, threads>>

ParseRadarConfigTlvVec ==
    /\ op = "none"
    /\ op' = "parse_radar_config_tlv_vec"
    /\ ret' = parse_radar_config_tlv_vec(args.no_of_params, args.byte_array)
    /\ UNCHANGED <<args, mgr_calls, dispatcher, issued, threads>>

NextTlv ==
    \/ ParseAppConfigTlvVec
    \/ ParseRadarConfigTlvVec

SpecTlv == InitTlv /\ [][NextTlv]_vars

(***************************************************************************)
(* Phase list codec                                                        *)
(***************************************************************************)
PHASE_LIST_SIZE == 8

Panic(msg) == [ok |-> FALSE, err |-> "panic", msg |-> msg]

\* A usize the model can hold: 0 .. 2^31-1 stands for itself, and a
\* negative k stands for 2^64 + k, which is what `k as usize` gives for a
\* negative jint or jbyte k.
\* Vec::with_capacity(n) of 8-byte PhaseList elements panics when n * 8
\* exceeds isize::MAX, which of the usizes above is so for the second kind.
CapacityOverflow(number_of_phases) == number_of_phases < 0

\* slice.chunks_exact(size): the full chunks, in order; a shorter rest is
\* left out
ChunksExact(bytes, size) ==
    [i \in 1 .. (Len(bytes) \div size) |->
        SubSeq(bytes, (i - 1) * size + 1, i * size)]

\* PhaseList::parse reading the integers most significant byte first
PhaseList_parse_BigEndian(chunk) ==
    IF Len(chunk) < PHASE_LIST_SIZE THEN Err("InvalidLength")
    ELSE Ok([session_handle |->
                 chunk[4] + 256 * chunk[3] + 65536 * chunk[2] + 16777216 * chunk[1],
             start_slot_index |-> chunk[6] + 256 * chunk[5],
             end_slot_index |-> chunk[8] + 256 * chunk[7]])

\* PhaseList::parse: session handle as u32 in 4 bytes, start slot index as
\* u16 in 2 bytes, end slot index as u16 in 2 bytes, little endian
PhaseList_parse(chunk) ==
    IF Len(chunk) < PHASE_LIST_SIZE THEN Err("InvalidLength")
    ELSE Ok([session_handle |->
                 chunk[1] + 256 * chunk[2] + 65536 * chunk[3] + 16777216 * chunk[4],
             start_slot_index |-> chunk[5] + 256 * chunk[6],
             end_slot_index |-> chunk[7] + 256 * chunk[8]])

\* the loop over byte_array.chunks_exact(PHASE_LIST_SIZE) and the check
\* after it
RECURSIVE PhaseListLoop(_, _, _, _)
PhaseListLoop(chunks, parsed_phase_lists_len, phase_lists, received_phase_list_len) ==
    IF chunks = <<>>
    THEN IF parsed_phase_lists_len # received_phase_list_len
         THEN Err(BadParameters)
         ELSE Ok(phase_lists)
    ELSE LET phase_list == PhaseList_parse(Head(chunks)) IN
         IF ~phase_list.ok THEN Err(BadParameters)
         ELSE PhaseListLoop(Tail(chunks),
                            parsed_phase_lists_len + PHASE_LIST_SIZE,
                            Append(phase_lists, phase_list.val),
                            received_phase_list_len)

parse_hybrid_config_phase_list_vec(number_of_phases, byte_array) ==
    IF CapacityOverflow(number_of_phases) THEN Panic("capacity overflow")
    ELSE PhaseListLoop(ChunksExact(byte_array, PHASE_LIST_SIZE), 0, <<>>, Len(byte_array))

(***************************************************************************)
(* Phase list parser: inputs drawn first, then the parser applied.         *)
(***************************************************************************)
\* the values of number_of_phases the parser is applied to
PhaseCounts == 0 .. (MaxPhases + 1)

MaxPhaseBufLen == PHASE_LIST_SIZE * MaxPhases + 3

\* buffers of every length up to MaxPhaseBufLen, byte j being
\* (start + step * j) % 128
PatternBuffer(len, start, step) == [j \in 1 .. len |-> (start + step * (j - 1)) % 128]

PhaseBuffers ==
    {PatternBuffer(len, start, step) :
        len \in 0 .. MaxPhaseBufLen, start \in {0, 1, 100}, step \in {0, 1, 7}}

InitPhase ==
    /\ op = "none"
    /\ args \in [number_of_phases : PhaseCounts, byte_array : PhaseBuffers]
    /\ ret = Pending
    /\ mgr_calls = <<>>
    /\ dispatcher = NoDispatcher
    /\ issued = <<>>
    /\ threads = <<>>

ParseHybridConfigPhaseListVec ==
    /\ op = "none"
    /\ op' = "parse_hybrid_config_phase_list_vec"
    /\ ret' = parse_hybrid_config_phase_list_vec(args.number_of_phases, args.byte_array)
    /\ UNCHANGED <<args, mgr_calls, dispatcher, issued, threads>>

NextPhase == ParseHybridConfigPhaseListVec

SpecPhase == InitPhase /\ [][NextPhase]_vars

(***************************************************************************)
(* Controlee list resolver and multicast list update                       *)
(***************************************************************************)
\* absent jbyteArray: sub_session_keys.is_null()
NULL == [null |-> TRUE]

\* slice.chunks(size): the full chunks in order, then the shorter rest,
\* if any, as a last chunk
Chunks(bytes, size) ==
    [i \in 1 .. ((Len(bytes) + size - 1) \div size) |->
        SubSeq(bytes, (i - 1) * size + 1,
               IF i * size <= Len(bytes) THEN i * size ELSE Len(bytes))]

\* UpdateMulticastListAction::try_from taking every other byte for a plain add
UpdateMulticastListAction_try_from_Lenient(byte) ==
    CASE byte = 1 -> Ok("RemoveControlee")
      [] byte = 2 -> Ok("AddControleeWithShortSubSessionKey")
      [] byte = 3 -> Ok("AddControleeWithLongSubSessionKey")
      [] OTHER -> Ok("AddControlee")

\* UpdateMulticastListAction::try_from(u8)
UpdateMulticastListAction_try_from(byte) ==
    CASE byte = 0 -> Ok("AddControlee")
      [] byte = 1 -> Ok("RemoveControlee")
      [] byte = 2 -> Ok("AddControleeWithShortSubSessionKey")
      [] byte = 3 -> Ok("AddControleeWithLongSubSessionKey")
      [] OTHER -> Err("InvalidEnumValue")

\* the check with the comparison against no_of_controlee left out
CardinalityMismatch_NoCount(address_list, sub_session_id_list, no_of_controlee) ==
    Len(address_list) # Len(sub_session_id_list)

\* address_list.len() != sub_session_id_list.len()
\*     || address_list.len() != no_of_controlee as usize
\* (a negative jbyte as usize is above every length)
CardinalityMismatch(address_list, sub_session_id_list, no_of_controlee) ==
    \/ Len(address_list) # Len(sub_session_id_list)
    \/ no_of_controlee < 0
    \/ Len(address_list) # no_of_controlee

ZipLen(a, b) == IF Len(a) <= Len(b) THEN Len(a) ELSE Len(b)

\* the plain list built last entry first
NoSessionKeyList_Reversed(address_list, sub_session_id_list) ==
    LET n == ZipLen(address_list, sub_session_id_list) IN
    [i \in 1 .. n |->
        [short_address |-> address_list[n + 1 - i],
         subsession_id |-> AsU32(sub_session_id_list[n + 1 - i])]]

\* zip(address_list, sub_session_id_list).map(|(a, s)| Controlee { .. })
NoSessionKeyList(address_list, sub_session_id_list) ==
    [i \in 1 .. ZipLen(address_list, sub_session_id_list) |->
        [short_address |-> address_list[i],
         subsession_id |-> AsU32(sub_session_id_list[i])]]

\* the keyed list with every entry given the first key chunk
RECURSIVE KeyedList_FirstKey(_, _, _, _, _, _)
KeyedList_FirstKey(i, address_list, sub_session_id_list, key_chunks, width, acc) ==
    IF i > ZipLen(NoSessionKeyList(address_list, sub_session_id_list), key_chunks)
    THEN Ok(acc)
    ELSE IF Len(key_chunks[i]) # width THEN Err(BadParameters)
    ELSE KeyedList_FirstKey(i + 1, address_list, sub_session_id_list, key_chunks, width,
                   Append(acc, [short_address |-> address_list[i],
                                subsession_id |-> AsU32(sub_session_id_list[i]),
                                subsession_key |-> key_chunks[1]]))

\* zip(zip(address_list, sub_session_id_list), keys.chunks(width))
\*     .map(|((address, id), key)| Ok(Controlee_V2_0_.. { .., key.try_into()? }))
\*     .collect::<Result<Vec<_>>>()
\* from the i-th pair on: the zip ends with the shorter side, and the first
\* chunk that is not `width` bytes long ends it with BadParameters
RECURSIVE KeyedList(_, _, _, _, _, _)
KeyedList(i, address_list, sub_session_id_list, key_chunks, width, acc) ==
    IF i > ZipLen(NoSessionKeyList(address_list, sub_session_id_list), key_chunks)
    THEN Ok(acc)
    ELSE IF Len(key_chunks[i]) # width THEN Err(BadParameters)
    ELSE KeyedList(i + 1, address_list, sub_session_id_list, key_chunks, width,
                   Append(acc, [short_address |-> address_list[i],
                                subsession_id |-> AsU32(sub_session_id_list[i]),
                                subsession_key |-> key_chunks[i]]))

\* the match on the action with a keyed add without keys turned down
ControleeList_NullKeysRejected(action, address_list, sub_session_id_list, sub_session_keys) ==
    CASE action \in {"AddControlee", "RemoveControlee"} ->
           Ok([variant |-> "NoSessionKey",
               list |-> NoSessionKeyList(address_list, sub_session_id_list)])
      [] action = "AddControleeWithShortSubSessionKey" ->
           IF sub_session_keys = NULL
           THEN Err(BadParameters)
           ELSE LET l == KeyedList(1, address_list, sub_session_id_list,
                                   Chunks(sub_session_keys.bytes, 16), 16, <<>>) IN
                IF l.ok THEN Ok([variant |-> "ShortSessionKey", list |-> l.val]) ELSE l
      [] action = "AddControleeWithLongSubSessionKey" ->
           IF sub_session_keys = NULL
           THEN Err(BadParameters)
           ELSE LET l == KeyedList(1, address_list, sub_session_id_list,
                                   Chunks(sub_session_keys.bytes, 32), 32, <<>>) IN
                IF l.ok THEN Ok([variant |-> "LongSessionKey", list |-> l.val]) ELSE l

\* the match on the action: the Controlees variant handed to the manager
ControleeList(action, address_list, sub_session_id_list, sub_session_keys) ==
    CASE action \in {"AddControlee", "RemoveControlee"} ->
           Ok([variant |-> "NoSessionKey",
               list |-> NoSessionKeyList(address_list, sub_session_id_list)])
      [] action = "AddControleeWithShortSubSessionKey" ->
           IF sub_session_keys = NULL
           THEN Ok([variant |-> "NoSessionKey",
                    list |-> NoSessionKeyList(address_list, sub_session_id_list)])
           ELSE LET l == KeyedList(1, address_list, sub_session_id_list,
                                   Chunks(sub_session_keys.bytes, 16), 16, <<>>) IN
                IF l.ok THEN Ok([variant |-> "ShortSessionKey", list |-> l.val]) ELSE l
      [] action = "AddControleeWithLongSubSessionKey" ->
           IF sub_session_keys = NULL
           THEN Ok([variant |-> "NoSessionKey",
                    list |-> NoSessionKeyList(address_list, sub_session_id_list)])
           ELSE LET l == KeyedList(1, address_list, sub_session_id_list,
                                   Chunks(sub_session_keys.bytes, 32), 32, <<>>) IN
                IF l.ok THEN Ok([variant |-> "LongSessionKey", list |-> l.val]) ELSE l

\* the outcome of a facade call: its result and the manager operations
\* it invoked
Outcome(r, calls) == [ret |-> r, calls |-> calls]

\* native_controller_multicast_list_update; a.mgr_ret is what the manager
\* returns if it is called
native_controller_multicast_list_update(d, a) ==
    LET uci_manager == Dispatcher_get_uci_manager(d, a.chip_id)
        address_list == ChunksExact(a.addresses, 2)
        sub_session_id_list == a.sub_session_ids
        action == UpdateMulticastListAction_try_from(AsU8(a.action))
    IN
    IF ~uci_manager.ok THEN Outcome(Err(uci_manager.err), <<>>)
    ELSE IF CardinalityMismatch(address_list, sub_session_id_list, a.no_of_controlee)
    THEN Outcome(Err(BadParameters), <<>>)
    ELSE IF ~action.ok THEN Outcome(Err(BadParameters), <<>>)
    ELSE LET controlee_list == ControleeList(action.val, address_list,
                                             sub_session_id_list, a.sub_session_keys) IN
         IF ~controlee_list.ok THEN Outcome(Err(controlee_list.err), <<>>)
         ELSE Outcome(a.mgr_ret,
                      <<[op |-> "session_update_controller_multicast_list",
                         chip |-> uci_manager.val,
                         session_id |-> AsU32(a.session_id),
                         action |-> action.val,
                         controlees |-> controlee_list.val]>>)

(***************************************************************************)
(* Multicast list update: inputs and Dispatcher state drawn first, then    *)
(* the call.                                                               *)
(***************************************************************************)
Chip == "chip0"

OtherChip == "chip1"

\* the key widths are 16 and 32 bytes, so key arrays reach a chunk more
\* than MaxControlee long keys
MaxKeyChunks == 2 * MaxControlee + 2

KeyArrays ==
    {NULL} \cup {[bytes |-> PatternBuffer(16 * q + r, 1, 1)] :
                    q \in 0 .. MaxKeyChunks, r \in {0, 1, 15}}

\* addresses 1, 2, 3, .. and, for lists with duplicates, 7, 7, 7, ..
AddressArrays ==
    {PatternBuffer(len, 1, 1) : len \in 0 .. (2 * MaxControlee + 1)}
    \cup {PatternBuffer(len, 7, 0) : len \in 0 .. (2 * MaxControlee + 1)}

SubSessionIdArrays ==
    {[i \in 1 .. len |-> first * i] : len \in 0 .. (MaxControlee + 1), first \in {10, -1}}

ActionBytes == {0, 1, 2, 3, 4, -1}

ManagerResults == {Ok(<<>>), Err("Timeout")}

InitMulticast ==
    /\ op = "none"
    /\ args \in [chip_id : {Chip, OtherChip},
                 session_id : {42},
                 action : ActionBytes,
                 no_of_controlee : (-1) .. (MaxControlee + 1),
                 addresses : AddressArrays,
                 sub_session_ids : SubSessionIdArrays,
                 sub_session_keys : KeyArrays,
                 mgr_ret : ManagerResults]
    /\ ret = Pending
    /\ mgr_calls = <<>>
    /\ dispatcher \in {NoDispatcher, LiveDispatcher({Chip})}
    /\ issued = <<>>
    /\ threads = <<>>

NativeControllerMulticastListUpdate ==
    /\ op = "none"
    /\ op' = "native_controller_multicast_list_update"
    /\ LET o == native_controller_multicast_list_update(dispatcher, args) IN
         /\ ret' = o.ret
         /\ mgr_calls' = o.calls
    /\ UNCHANGED <<args, dispatcher, issued, threads>>

NextMulticast == NativeControllerMulticastListUpdate

SpecMulticast == InitMulticast /\ [][NextMulticast]_vars

(***************************************************************************)
(* Command facade: the native_* functions.  Each takes the Dispatcher      *)
(* state d and the arguments a of the call; a.mgr_ret is what the manager  *)
(* returns if it is called.                                                *)
(***************************************************************************)
ForeignFunctionInterface == "ForeignFunctionInterface"

\* result.map_err(|_| e)
MapErr(r, e) == IF r.ok THEN r ELSE Err(e)

\* a call that returns Err(e) before any manager operation
Fail(e) == Outcome(Err(e), <<>>)

\* the manager operation invoked again after it returned an error
Invoke_Retry(uci_manager, a, mgr_op, params) ==
    LET c == [op |-> mgr_op, chip |-> uci_manager.val, params |-> params] IN
    Outcome(a.mgr_ret, IF a.mgr_ret.ok THEN <<c>> ELSE <<c, c>>)

\* uci_manager.mgr_op(params), as the last expression of the function: one
\* manager operation, whose result is the result of the call
Invoke(uci_manager, a, mgr_op, params) ==
    Outcome(a.mgr_ret, <<[op |-> mgr_op, chip |-> uci_manager.val, params |-> params]>>)

\* the functions that are `Dispatcher::get_uci_manager(..)?` followed by one
\* manager operation
LookupThenInvoke(d, a, mgr_op, params) ==
    LET uci_manager == Dispatcher_get_uci_manager(d, a.chip_id) IN
    IF ~uci_manager.ok THEN Fail(uci_manager.err)
    ELSE Invoke(uci_manager, a, mgr_op, params)

\* the same with `.map_err(|_| Error::ForeignFunctionInterface)?` on the lookup
MappedLookupThenInvoke(d, a, mgr_op, params) ==
    LET uci_manager == MapErr(Dispatcher_get_uci_manager(d, a.chip_id),
                              ForeignFunctionInterface) IN
    IF ~uci_manager.ok THEN Fail(uci_manager.err)
    ELSE Invoke(uci_manager, a, mgr_op, params)

native_do_initialize(d, a) == LookupThenInvoke(d, a, "open_hal", <<>>)

native_do_deinitialize(d, a) == LookupThenInvoke(d, a, "close_hal", <<TRUE>>)

native_device_reset(d, a) == LookupThenInvoke(d, a, "device_reset", <<"UwbsReset">>)

\* the bytes SessionType defines
SessionType == {0, 1, 2, 3, 4, 5, 160, 161, 208}

\* SessionType::try_from(u8)
SessionType_try_from(byte) ==
    IF byte \in SessionType THEN Ok(byte) ELSE Err("InvalidEnumValue")

native_session_init(d, a) ==
    LET session_type == SessionType_try_from(AsU8(a.session_type)) IN
    IF ~session_type.ok THEN Fail(BadParameters)
    ELSE LookupThenInvoke(d, a, "session_init", <<AsU32(a.session_id), session_type.val>>)

native_session_deinit(d, a) ==
    LookupThenInvoke(d, a, "session_deinit", <<AsU32(a.session_id)>>)

native_get_session_count(d, a) == LookupThenInvoke(d, a, "session_get_count", <<>>)

native_ranging_start(d, a) ==
    LookupThenInvoke(d, a, "range_start", <<AsU32(a.session_id)>>)

native_ranging_stop(d, a) ==
    LookupThenInvoke(d, a, "range_stop", <<AsU32(a.session_id)>>)

native_get_session_state(d, a) ==
    LookupThenInvoke(d, a, "session_get_state", <<AsU32(a.session_id)>>)

\* native_set_app_configurations handing the manager what was parsed
\* before the error
native_set_app_configurations_Partial(d, a) ==
    LET uci_manager == Dispatcher_get_uci_manager(d, a.chip_id)
        tlvs == parse_app_config_tlv_vec(a.no_of_params, a.byte_array)
    IN
    IF ~uci_manager.ok THEN Fail(uci_manager.err)
    ELSE IF ~tlvs.ok
    THEN Outcome(Err(tlvs.err),
                 <<[op |-> "session_set_app_config", chip |-> uci_manager.val,
                    params |-> <<AsU32(a.session_id), <<>>>>]>>)
    ELSE Invoke(uci_manager, a, "session_set_app_config",
                <<AsU32(a.session_id), tlvs.val>>)

native_set_app_configurations(d, a) ==
    LET uci_manager == Dispatcher_get_uci_manager(d, a.chip_id)
        tlvs == parse_app_config_tlv_vec(a.no_of_params, a.byte_array)
    IN
    IF ~uci_manager.ok THEN Fail(uci_manager.err)
    ELSE IF ~tlvs.ok THEN Fail(tlvs.err)
    ELSE Invoke(uci_manager, a, "session_set_app_config",
                <<AsU32(a.session_id), tlvs.val>>)

native_set_radar_app_configurations(d, a) ==
    LET uci_manager == Dispatcher_get_uci_manager(d, a.chip_id)
        tlvs == parse_radar_config_tlv_vec(a.no_of_params, a.byte_array)
    IN
    IF ~uci_manager.ok THEN Fail(uci_manager.err)
    ELSE IF ~tlvs.ok THEN Fail(tlvs.err)
    ELSE Invoke(uci_manager, a, "android_set_radar_config",
                <<AsU32(a.session_id), tlvs.val>>)

\* number_of_phases as usize and update_time as [u8; 8]; a panic of the
\* parser ends the call
native_set_hybrid_session_configurations(d, a) ==
    LET uci_manager == Dispatcher_get_uci_manager(d, a.chip_id)
        phase_list_vec == parse_hybrid_config_phase_list_vec(a.number_of_phases, a.phase_list)
    IN
    IF ~uci_manager.ok THEN Fail(uci_manager.err)
    ELSE IF ~phase_list_vec.ok THEN Outcome(phase_list_vec, <<>>)
    ELSE IF Len(a.update_time) # 8 THEN Fail(BadParameters)
    ELSE Invoke(uci_manager, a, "session_set_hybrid_config",
                <<AsU32(a.session_id), AsU8(a.number_of_phases), a.update_time,
                  phase_list_vec.val>>)

\* the bytes AppConfigTlvType defines, of those the model uses: 0 is
\* DeviceType, 1 RangingRoundUsage, 2 StsConfig; 255 is taken as undefined
AppConfigTlvType == {0, 1, 2}

\* bytes.map(AppConfigTlvType::try_from).map(Result::ok)
\*     .collect::<Option<Vec<_>>>().ok_or(Error::BadParameters)
AppConfigTlvTypes(bytes) ==
    IF \A i \in 1 .. Len(bytes) : bytes[i] \in AppConfigTlvType
    THEN Ok(bytes) ELSE Err(BadParameters)

native_get_app_configurations(d, a) ==
    LET uci_manager == MapErr(Dispatcher_get_uci_manager(d, a.chip_id),
                              ForeignFunctionInterface)
        config_ids == AppConfigTlvTypes(a.byte_array)
    IN
    IF ~uci_manager.ok THEN Fail(uci_manager.err)
    ELSE IF ~config_ids.ok THEN Fail(config_ids.err)
    ELSE Invoke(uci_manager, a, "session_get_app_config",
                <<AsU32(a.session_id), config_ids.val>>)

native_get_caps_info(d, a) == LookupThenInvoke(d, a, "core_get_caps_info", <<>>)

\* CountryCode::new: two ASCII upper case letters, or "00" for unknown
CountryCode_new(code) ==
    IF (\A i \in 1 .. 2 : code[i] \in 65 .. 90) \/ code = <<48, 48>>
    THEN Ok(code) ELSE Err("None")

native_set_country_code(d, a) ==
    LET uci_manager == Dispatcher_get_uci_manager(d, a.chip_id) IN
    IF ~uci_manager.ok THEN Fail(uci_manager.err)
    ELSE IF Len(a.country_code) # 2 THEN Fail(BadParameters)
    ELSE IF ~CountryCode_new(a.country_code).ok THEN Fail(BadParameters)
    ELSE Invoke(uci_manager, a, "android_set_country_code", <<a.country_code>>)

native_send_raw_vendor_cmd(d, a) ==
    LookupThenInvoke(d, a, "raw_uci_cmd", <<a.payload>>)

native_get_power_stats(d, a) == LookupThenInvoke(d, a, "android_get_power_stats", <<>>)

native_set_ranging_rounds_dt_tag(d, a) ==
    LookupThenInvoke(d, a, "session_update_dt_tag_ranging_rounds",
                     <<AsU32(a.session_id), a.payload>>)

native_send_data(d, a) ==
    MappedLookupThenInvoke(d, a, "send_data_packet", <<AsU32(a.session_id), a.payload>>)

native_query_data_size(d, a) ==
    MappedLookupThenInvoke(d, a, "session_query_max_data_size", <<AsU32(a.session_id)>>)

native_session_data_transfer_phase_config(d, a) ==
    MappedLookupThenInvoke(d, a, "session_data_transfer_phase_config",
                           <<AsU32(a.session_id), a.payload>>)

native_query_time_stamp(d, a) ==
    MappedLookupThenInvoke(d, a, "core_query_uwb_timestamp", <<>>)

native_get_session_token(d, a) ==
    MappedLookupThenInvoke(d, a, "get_session_token", <<AsU32(a.session_id)>>)

(***************************************************************************)
(* The facade under calls of every function, in every Dispatcher state.    *)
(***************************************************************************)
FacadeBuffers == UNION {[1 .. n -> Bytes] : n \in 0 .. MaxFacadeBufLen}

\* the arguments every call has
Common(fn) == [fn : {fn}, chip_id : {Chip, OtherChip}, session_id : {42},
               mgr_ret : ManagerResults]

\* r extended with the fields of the records of S
With(R, S) == {[f \in (DOMAIN r) \cup (DOMAIN s) |->
                   IF f \in DOMAIN s THEN s[f] ELSE r[f]] : r \in R, s \in S}

Payloads == {<<>>, <<1, 2>>}

CountryCodes == {<<>>, <<85>>, <<85, 83>>, <<48, 48>>, <<1, 2>>, <<85, 1>>, <<85, 83, 65>>}

UpdateTimes == {PatternBuffer(len, 0, 1) : len \in {0, 7, 8, 9}}

FacadeKeyArrays ==
    {NULL} \cup {[bytes |-> PatternBuffer(16 * q + r, 1, 1)] :
                    q \in 0 .. MaxKeyChunks, r \in {0, 1}}

FacadeArgs ==
    UNION {Common(fn) : fn \in {"native_do_initialize", "native_do_deinitialize",
                                "native_device_reset", "native_session_deinit",
                                "native_get_session_count", "native_ranging_start",
                                "native_ranging_stop", "native_get_session_state",
                                "native_get_caps_info", "native_get_power_stats",
                                "native_query_data_size", "native_query_time_stamp",
                                "native_get_session_token"}}
    \cup With(Common("native_session_init"), [session_type : {0, 7, -96, 256, -1}])
    \cup UNION {With(Common(fn), [no_of_params : ParamCounts, byte_array : FacadeBuffers]) :
                    fn \in {"native_set_app_configurations",
                            "native_set_radar_app_configurations"}}
    \cup With(Common("native_set_hybrid_session_configurations"),
              [number_of_phases : ((-1) .. (MaxPhases + 1)) \cup {256, 257},
               phase_list : PhaseBuffers,
               update_time : UpdateTimes])
    \cup With(Common("native_get_app_configurations"), [byte_array : FacadeBuffers])
    \cup With(Common("native_controller_multicast_list_update"),
              [action : ActionBytes,
               no_of_controlee : (-1) .. (MaxControlee + 1),
               addresses : AddressArrays,
               sub_session_ids : SubSessionIdArrays,
               sub_session_keys : FacadeKeyArrays])
    \cup With(Common("native_set_country_code"), [country_code : CountryCodes])
    \cup UNION {With(Common(fn), [payload : Payloads]) :
                    fn \in {"native_send_raw_vendor_cmd", "native_set_ranging_rounds_dt_tag",
                            "native_send_data",
                            "native_session_data_transfer_phase_config"}}

InitFacade ==
    /\ op = "none"
    /\ args \in FacadeArgs
    /\ ret = Pending
    /\ mgr_calls = <<>>
    /\ dispatcher \in {NoDispatcher, LiveDispatcher({Chip}), DestroyedDispatcher}
    /\ issued = <<>>
    /\ threads = <<>>

\* the call of function fn with outcome o
Call(fn, o) ==
    /\ op = "none"
    /\ op' = fn
    /\ ret' = o.ret
    /\ mgr_calls' = o.calls
    /\ UNCHANGED <<args, dispatcher, issued, threads>>

NativeDoInitialize ==
    /\ args.fn = "native_do_initialize"
    /\ Call("native_do_initialize", native_do_initialize(dispatcher, args))

NativeDoDeinitialize ==
    /\ args.fn = "native_do_deinitialize"
    /\ Call("native_do_deinitialize", native_do_deinitialize(dispatcher, args))

NativeDeviceReset ==
    /\ args.fn = "native_device_reset"
    /\ Call("native_device_reset", native_device_reset(dispatcher, args))

NativeSessionInit ==
    /\ args.fn = "native_session_init"
    /\ Call("native_session_init", native_session_init(dispatcher, args))

NativeSessionDeinit ==
    /\ args.fn = "native_session_deinit"
    /\ Call("native_session_deinit", native_session_deinit(dispatcher, args))

NativeGetSessionCount ==
    /\ args.fn = "native_get_session_count"
    /\ Call("native_get_session_count", native_get_session_count(dispatcher, args))

NativeRangingStart ==
    /\ args.fn = "native_ranging_start"
    /\ Call("native_ranging_start", native_ranging_start(dispatcher, args))

NativeRangingStop ==
    /\ args.fn = "native_ranging_stop"
    /\ Call("native_ranging_stop", native_ranging_stop(dispatcher, args))

NativeGetSessionState ==
    /\ args.fn = "native_get_session_state"
    /\ Call("native_get_session_state", native_get_session_state(dispatcher, args))

NativeSetAppConfigurations ==
    /\ args.fn = "native_set_app_configurations"
    /\ Call("native_set_app_configurations", native_set_app_configurations(dispatcher, args))

NativeSetRadarAppConfigurations ==
    /\ args.fn = "native_set_radar_app_configurations"
    /\ Call("native_set_radar_app_configurations", native_set_radar_app_configurations(dispatcher, args))

NativeSetHybridSessionConfigurations ==
    /\ args.fn = "native_set_hybrid_session_configurations"
    /\ Call("native_set_hybrid_session_configurations", native_set_hybrid_session_configurations(dispatcher, args))

NativeGetAppConfigurations ==
    /\ args.fn = "native_get_app_configurations"
    /\ Call("native_get_app_configurations", native_get_app_configurations(dispatcher, args))

NativeGetCapsInfo ==
    /\ args.fn = "native_get_caps_info"
    /\ Call("native_get_caps_info", native_get_caps_info(dispatcher, args))

FacadeControllerMulticastListUpdate ==
    /\ args.fn = "native_controller_multicast_list_update"
    /\ Call("native_controller_multicast_list_update", native_controller_multicast_list_update(dispatcher, args))

NativeSetCountryCode ==
    /\ args.fn = "native_set_country_code"
    /\ Call("native_set_country_code", native_set_country_code(dispatcher, args))

NativeSendRawVendorCmd ==
    /\ args.fn = "native_send_raw_vendor_cmd"
    /\ Call("native_send_raw_vendor_cmd", native_send_raw_vendor_cmd(dispatcher, args))

NativeGetPowerStats ==
    /\ args.fn = "native_get_power_stats"
    /\ Call("native_get_power_stats", native_get_power_stats(dispatcher, args))

NativeSetRangingRoundsDtTag ==
    /\ args.fn = "native_set_ranging_rounds_dt_tag"
    /\ Call("native_set_ranging_rounds_dt_tag", native_set_ranging_rounds_dt_tag(dispatcher, args))

NativeSendData ==
    /\ args.fn = "native_send_data"
    /\ Call("native_send_data", native_send_data(dispatcher, args))

NativeQueryDataSize ==
    /\ args.fn = "native_query_data_size"
    /\ Call("native_query_data_size", native_query_data_size(dispatcher, args))

NativeSessionDataTransferPhaseConfig ==
    /\ args.fn = "native_session_data_transfer_phase_config"
    /\ Call("native_session_data_transfer_phase_config", native_session_data_transfer_phase_config(dispatcher, args))

NativeQueryTimeStamp ==
    /\ args.fn = "native_query_time_stamp"
    /\ Call("native_query_time_stamp", native_query_time_stamp(dispatcher, args))

NativeGetSessionToken ==
    /\ args.fn = "native_get_session_token"
    /\ Call("native_get_session_token", native_get_session_token(dispatcher, args))

NextFacade ==
    \/ NativeDoInitialize
    \/ NativeDoDeinitialize
    \/ NativeDeviceReset
    \/ NativeSessionInit
    \/ NativeSessionDeinit
    \/ NativeGetSessionCount
    \/ NativeRangingStart
    \/ NativeRangingStop
    \/ NativeGetSessionState
    \/ NativeSetAppConfigurations
    \/ NativeSetRadarAppConfigurations
    \/ NativeSetHybridSessionConfigurations
    \/ NativeGetAppConfigurations
    \/ NativeGetCapsInfo
    \/ FacadeControllerMulticastListUpdate
    \/ NativeSetCountryCode
    \/ NativeSendRawVendorCmd
    \/ NativeGetPowerStats
    \/ NativeSetRangingRoundsDtTag
    \/ NativeSendData
    \/ NativeQueryDataSize
    \/ NativeSessionDataTransferPhaseConfig
    \/ NativeQueryTimeStamp
    \/ NativeGetSessionToken

SpecFacade == InitFacade /\ [][NextFacade]_vars

(***************************************************************************)
(* Dispatcher lifecycle.  The operations of Dispatcher give the new        *)
(* Dispatcher state d and their result res.                                *)
(***************************************************************************)
Addresses == 1 .. MaxAddresses

\* *JObject::null() as jlong
NullHandle == 0

\* the Live Dispatcher placed at address ptr
LiveAt(chips, ptr) == [state |-> "Live", chips |-> chips, ptr |-> ptr]

Step(d, res) == [d |-> d, res |-> res]

\* Dispatcher::new_dispatcher: fails if a Dispatcher is Live, otherwise
\* goes to Live with one manager per chip id; addr is where the instance is
\* placed
Dispatcher_new_dispatcher(d, chip_ids, addr) ==
    IF d.state = "Live" THEN Step(d, Err("AlreadyLive"))
    ELSE Step(LiveAt(chip_ids, addr), Ok(<<>>))

\* Dispatcher::get_dispatcher_ptr: the address of the Live Dispatcher
Dispatcher_get_dispatcher_ptr(d) ==
    IF d.state = "Live" THEN Ok(d.ptr) ELSE Err(StateError(d))

\* Dispatcher::destroy_dispatcher: releases the managers of the Live
\* Dispatcher and goes to Destroyed
Dispatcher_destroy_dispatcher(d) ==
    IF d.state = "Live" THEN Step(DestroyedDispatcher, Ok(<<>>))
    ELSE Step(d, Err(StateError(d)))

\* native_dispatcher_new going on to read the pointer after a failed
\* new_dispatcher
native_dispatcher_new_IgnoreError(d, a) ==
    IF ~a.jvm_captured THEN Step(d, Err("Unknown"))
    ELSE LET n == Dispatcher_new_dispatcher(d, a.chip_ids, a.addr) IN
         Step(n.d, Dispatcher_get_dispatcher_ptr(n.d))

\* native_dispatcher_new; a.jvm_captured is whether
\* unique_jvm::get_static_ref() is Some
native_dispatcher_new(d, a) ==
    IF ~a.jvm_captured THEN Step(d, Err("Unknown"))
    ELSE LET n == Dispatcher_new_dispatcher(d, a.chip_ids, a.addr) IN
         IF ~n.res.ok THEN Step(n.d, n.res)
         ELSE Step(n.d, Dispatcher_get_dispatcher_ptr(n.d))

\* Java_..._nativeDispatcherNew: the pointer as jlong, the null handle on
\* failure
nativeDispatcherNew(d, a) ==
    LET r == native_dispatcher_new(d, a) IN
    Step(r.d, IF r.res.ok THEN r.res.val ELSE NullHandle)

\* native_dispatcher_destroy tearing down without the identity check
native_dispatcher_destroy_NoCheck(d, a) ==
    LET ptr == Dispatcher_get_dispatcher_ptr(d) IN
    IF ~ptr.ok THEN Step(d, ptr)
    ELSE Dispatcher_destroy_dispatcher(d)

\* native_dispatcher_destroy; a.mDispatcherPointer is the field of the
\* caller's object
native_dispatcher_destroy(d, a) ==
    LET ptr == Dispatcher_get_dispatcher_ptr(d) IN
    IF ~ptr.ok THEN Step(d, ptr)
    ELSE IF ptr.val = a.mDispatcherPointer THEN Dispatcher_destroy_dispatcher(d)
    ELSE Step(d, Err(BadParameters))

(***************************************************************************)
(* The lifecycle under sequences of create, destroy and facade calls made  *)
(* one after the other.  issued lists the handles the successful creates   *)
(* returned.                                                               *)
(***************************************************************************)
ChipSets == {{Chip}, {Chip, OtherChip}}

Handles == Addresses \cup {NullHandle}

InitLifecycle ==
    /\ op = "none"
    /\ args = <<>>
    /\ ret = Pending
    /\ mgr_calls = <<>>
    /\ dispatcher = NoDispatcher
    /\ issued = <<>>
    /\ threads = <<>>

LifecycleDispatcherNew ==
    /\ Len(issued) < MaxCreates
    /\ \E chip_ids \in ChipSets, addr \in Addresses, jvm_captured \in BOOLEAN :
          LET a == [fn |-> "nativeDispatcherNew", chip_ids |-> chip_ids,
                    addr |-> addr, jvm_captured |-> jvm_captured]
              r == nativeDispatcherNew(dispatcher, a)
          IN
          /\ op' = "nativeDispatcherNew"
          /\ args' = a
          /\ ret' = r.res
          /\ dispatcher' = r.d
          /\ issued' = IF r.res # NullHandle THEN Append(issued, r.res) ELSE issued
          /\ mgr_calls' = <<>>
          /\ UNCHANGED threads

LifecycleDispatcherDestroy ==
    \E handle \in Handles :
        LET a == [fn |-> "native_dispatcher_destroy", mDispatcherPointer |-> handle]
            r == native_dispatcher_destroy(dispatcher, a)
        IN
        /\ op' = "native_dispatcher_destroy"
        /\ args' = a
        /\ ret' = r.res
        /\ dispatcher' = r.d
        /\ mgr_calls' = <<>>
        /\ UNCHANGED <<issued, threads>>

\* the call of a facade function with outcome o
LifecycleCall(a, o) ==
    /\ op' = a.fn
    /\ args' = a
    /\ ret' = o.ret
    /\ mgr_calls' = o.calls
    /\ UNCHANGED <<dispatcher, issued, threads>>

LifecycleDoInitialize ==
    \E a \in Common("native_do_initialize") :
        LifecycleCall(a, native_do_initialize(dispatcher, a))

LifecycleSendData ==
    \E a \in With(Common("native_send_data"), [payload : Payloads]) :
        LifecycleCall(a, native_send_data(dispatcher, a))

NextLifecycle ==
    \/ LifecycleDispatcherNew
    \/ LifecycleDispatcherDestroy
    \/ LifecycleDoInitialize
    \/ LifecycleSendData

SpecLifecycle == InitLifecycle /\ [][NextLifecycle]_vars

(***************************************************************************)
(* The lifecycle under calls from several host threads.  A call is a       *)
(* sequence of steps, one per operation of Dispatcher it makes; steps of   *)
(* different threads interleave.  Instance i is the one the i-th           *)
(* successful construction made: issued[i] is its address, and the Live    *)
(* instance is the last one.  A thread keeps the handle it presented       *)
(* (hdl), the instance it constructed (made), the instance it tore down    *)
(* (torn) and its result (res); in a facade call, the instance whose       *)
(* manager it looked up (mgr), whether it still holds that manager         *)
(* (holds), and whether that instance was no longer Live when the manager  *)
(* operation ran (on_released); fn names the facade function.              *)
(***************************************************************************)
Threads == 1 .. MaxThreads

Idle == [pc |-> "idle", hdl |-> NullHandle, made |-> 0, torn |-> 0, res |-> Pending,
         fn |-> "", mgr |-> 0, holds |-> FALSE, on_released |-> FALSE]

Done(res) == [Idle EXCEPT !.pc = "done", !.res = res]

\* the threads holding a manager of the Live Dispatcher: the Live/Destroyed
\* transition is exclusive with them
ManagerHolders == {t \in Threads : threads[t].holds}

InitConcurrent ==
    /\ op = "none"
    /\ args = <<>>
    /\ ret = Pending
    /\ mgr_calls = <<>>
    /\ dispatcher = NoDispatcher
    /\ issued = <<>>
    /\ threads = [t \in Threads |-> Idle]

\* native_dispatcher_destroy up to the comparison: mDispatcherPointer is
\* read and compared with Dispatcher::get_dispatcher_ptr()
DestroyCheck(t) ==
    /\ threads[t].pc = "idle"
    /\ \E handle \in Handles :
          LET ptr == Dispatcher_get_dispatcher_ptr(dispatcher) IN
          threads' = [threads EXCEPT ![t] =
                         IF ~ptr.ok THEN Done(ptr)
                         ELSE IF ptr.val = handle
                         THEN [Idle EXCEPT !.pc = "destroy_dispatcher", !.hdl = handle]
                         ELSE [Done(Err(BadParameters)) EXCEPT !.hdl = handle]]
    /\ UNCHANGED <<op, args, ret, mgr_calls, dispatcher, issued>>

\* native_dispatcher_destroy from the comparison on:
\* Dispatcher::destroy_dispatcher()
DestroyTeardown(t) ==
    /\ threads[t].pc = "destroy_dispatcher"
    /\ ManagerHolders = {}
    /\ LET r == Dispatcher_destroy_dispatcher(dispatcher) IN
         /\ dispatcher' = r.d
         /\ threads' = [threads EXCEPT ![t] =
                           [Done(r.res) EXCEPT !.hdl = threads[t].hdl,
                                               !.torn = IF r.res.ok THEN Len(issued) ELSE 0]]
    /\ UNCHANGED <<op, args, ret, mgr_calls, issued>>

\* native_dispatcher_new up to Dispatcher::new_dispatcher(..)?
NewConstruct(t) ==
    /\ threads[t].pc = "idle"
    /\ Len(issued) < MaxCreates
    /\ \E chip_ids \in ChipSets, addr \in Addresses, jvm_captured \in BOOLEAN :
          IF ~jvm_captured
          THEN /\ threads' = [threads EXCEPT ![t] = Done(NullHandle)]
               /\ UNCHANGED <<dispatcher, issued>>
          ELSE LET n == Dispatcher_new_dispatcher(dispatcher, chip_ids, addr) IN
               /\ dispatcher' = n.d
               /\ issued' = IF n.res.ok THEN Append(issued, addr) ELSE issued
               /\ threads' = [threads EXCEPT ![t] =
                                 IF ~n.res.ok THEN Done(NullHandle)
                                 ELSE [Idle EXCEPT !.pc = "get_dispatcher_ptr",
                                                   !.made = Len(issued) + 1]]
    /\ UNCHANGED <<op, args, ret, mgr_calls>>

\* native_dispatcher_new from there on: Dispatcher::get_dispatcher_ptr(),
\* and the wrapper's conversion to the handle
NewReadPtr(t) ==
    /\ threads[t].pc = "get_dispatcher_ptr"
    /\ LET ptr == Dispatcher_get_dispatcher_ptr(dispatcher) IN
         threads' = [threads EXCEPT ![t] =
                        [Done(IF ptr.ok THEN ptr.val ELSE NullHandle)
                            EXCEPT !.made = threads[t].made]]
    /\ UNCHANGED <<op, args, ret, mgr_calls, dispatcher, issued>>

\* native_do_initialize whose manager is no longer held once the lookup
\* has returned
FacadeLookup_Unguarded(t) ==
    /\ threads[t].pc = "idle"
    /\ LET uci_manager == Dispatcher_get_uci_manager(dispatcher, Chip) IN
         threads' = [threads EXCEPT ![t] =
                        IF ~uci_manager.ok
                        THEN [Done(uci_manager) EXCEPT !.fn = "native_do_initialize"]
                        ELSE [Idle EXCEPT !.pc = "open_hal", !.mgr = Len(issued),
                                          !.fn = "native_do_initialize"]]
    /\ UNCHANGED <<op, args, ret, mgr_calls, dispatcher, issued>>

\* native_do_initialize up to `Dispatcher::get_uci_manager(..)?`: the
\* manager is bound to uci_manager, which lives to the end of the function
FacadeLookup(t) ==
    /\ threads[t].pc = "idle"
    /\ LET uci_manager == Dispatcher_get_uci_manager(dispatcher, Chip) IN
         threads' = [threads EXCEPT ![t] =
                        IF ~uci_manager.ok
                        THEN [Done(uci_manager) EXCEPT !.fn = "native_do_initialize"]
                        ELSE [Idle EXCEPT !.pc = "open_hal", !.mgr = Len(issued),
                                          !.fn = "native_do_initialize",
                                          !.holds = TRUE]]
    /\ UNCHANGED <<op, args, ret, mgr_calls, dispatcher, issued>>

\* native_do_initialize from there on: uci_manager.open_hal(), after which
\* uci_manager is dropped
FacadeInvoke(t) ==
    /\ threads[t].pc = "open_hal"
    /\ \E mgr_ret \in ManagerResults :
          threads' = [threads EXCEPT ![t] =
                         [Done(mgr_ret) EXCEPT
                             !.mgr = threads[t].mgr,
                             !.fn = threads[t].fn,
                             !.on_released = ~(/\ dispatcher.state = "Live"
                                               /\ Len(issued) = threads[t].mgr)]]
    /\ UNCHANGED <<op, args, ret, mgr_calls, dispatcher, issued>>

\* the call returns to the host thread, which may call again
Return(t) ==
    /\ threads[t].pc = "done"
    /\ threads' = [threads EXCEPT ![t] = Idle]
    /\ UNCHANGED <<op, args, ret, mgr_calls, dispatcher, issued>>

NextConcurrent ==
    \E t \in Threads :
        \/ DestroyCheck(t)
        \/ DestroyTeardown(t)
        \/ NewConstruct(t)
        \/ NewReadPtr(t)
        \/ FacadeLookup(t)
        \/ FacadeInvoke(t)
        \/ Return(t)

SpecConcurrent == InitConcurrent /\ [][NextConcurrent]_vars

(***************************************************************************)
(* JNI entry points that convert a numeric result.  A normal return of     *)
(* value v is Ok(v).  A u64 is held as its four 16-bit limbs, most         *)
(* significant first.                                                      *)
(***************************************************************************)
\* option_result_helper: Some(value) of an Ok, None of an Err
option_result_helper(r) ==
    IF r.ok THEN [some |-> TRUE, val |-> r.val] ELSE [some |-> FALSE]

\* Result::unwrap()
Unwrap(r) ==
    IF r.ok THEN Ok(r.val) ELSE Panic("unwrap on Err")

\* `c as i8` of a u8
AsI8(c) == IF c >= 128 THEN c - 256 ELSE c

\* i16::try_from(u16)
I16_try_from(s) == IF s <= 32767 THEN Ok(s) ELSE Err("TryFromIntError")

\* i64::try_from(u64)
I64_try_from(s) == IF s[1] <= 32767 THEN Ok(s) ELSE Err("TryFromIntError")

\* the jlong 0
ZeroJlong == <<0, 0, 0, 0>>

\* Java_..._nativeGetSessionCount
nativeGetSessionCount(d, a) ==
    LET o == native_get_session_count(d, a)
        c == option_result_helper(o.ret)
    IN
    Outcome(IF c.some THEN Ok(AsI8(c.val)) ELSE Ok(-1), o.calls)

\* Java_..._nativeQueryDataSize
nativeQueryDataSize(d, a) ==
    LET o == native_query_data_size(d, a)
        s == option_result_helper(o.ret)
    IN
    Outcome(IF s.some THEN Unwrap(I16_try_from(s.val)) ELSE Ok(0), o.calls)

\* Java_..._nativeQueryUwbTimestamp
nativeQueryUwbTimestamp(d, a) ==
    LET o == native_query_time_stamp(d, a)
        s == option_result_helper(o.ret)
    IN
    Outcome(IF s.some THEN Unwrap(I64_try_from(s.val)) ELSE Ok(ZeroJlong), o.calls)

(***************************************************************************)
(* The entry points under every result of the manager.                     *)
(***************************************************************************)
U8Values == 0 .. 255

U16Values == (0 .. 255) \cup {32767, 32768, 65535}

U64Values == [1 .. 4 -> {0, 1, 32767, 32768, 65535}]

\* the arguments of entry point fn when the manager returns one of values
EntryArgs(fn, values) ==
    [fn : {fn}, chip_id : {Chip, OtherChip}, session_id : {42},
     mgr_ret : {Ok(v) : v \in values} \cup {Err("Timeout")}]

InitEntry ==
    /\ op = "none"
    /\ args \in EntryArgs("nativeGetSessionCount", U8Values)
                \cup EntryArgs("nativeQueryDataSize", U16Values)
                \cup EntryArgs("nativeQueryUwbTimestamp", U64Values)
    /\ ret = Pending
    /\ mgr_calls = <<>>
    /\ dispatcher \in {NoDispatcher, LiveDispatcher({Chip}), DestroyedDispatcher}
    /\ issued = <<>>
    /\ threads = <<>>

EntryGetSessionCount ==
    /\ args.fn = "nativeGetSessionCount"
    /\ Call("nativeGetSessionCount", nativeGetSessionCount(dispatcher, args))

EntryQueryDataSize ==
    /\ args.fn = "nativeQueryDataSize"
    /\ Call("nativeQueryDataSize", nativeQueryDataSize(dispatcher, args))

EntryQueryUwbTimestamp ==
    /\ args.fn = "nativeQueryUwbTimestamp"
    /\ Call("nativeQueryUwbTimestamp", nativeQueryUwbTimestamp(dispatcher, args))

NextEntry ==
    \/ EntryGetSessionCount
    \/ EntryQueryDataSize
    \/ EntryQueryUwbTimestamp

SpecEntry == InitEntry /\ [][NextEntry]_vars

(***************************************************************************)
(* Properties of the TLV parsers.                                          *)
(***************************************************************************)
TlvOps == {"parse_app_config_tlv_vec", "parse_radar_config_tlv_vec"}

\* the wire form of a sequence of records: [tag][length][value] repeated
RECURSIVE Encode(_)
Encode(tlvs) ==
    IF tlvs = <<>> THEN <<>>
    ELSE <<Head(tlvs).cfg_id, Len(Head(tlvs).v)>> \o Head(tlvs).v \o Encode(Tail(tlvs))

\* the sum of (2 + value length) over a sequence of records
RECURSIVE SumTlvLen(_)
SumTlvLen(tlvs) ==
    IF tlvs = <<>> THEN 0 ELSE 2 + Len(Head(tlvs).v) + SumTlvLen(Tail(tlvs))

\* buf is exactly n records [tag][length][value of length bytes], one
\* after the other, every tag in `tags`
RECURSIVE IsTlvConcat(_, _, _)
IsTlvConcat(n, buf, tags) ==
    IF n = 0 THEN buf = <<>>
    ELSE /\ n > 0
         /\ Len(buf) >= 2
         /\ buf[1] \in tags
         /\ \E l \in 0 .. (Len(buf) - 2) :
               /\ buf[2] = l
               /\ IsTlvConcat(n - 1, SubSeq(buf, l + 3, Len(buf)), tags)

AnyTag == 0 .. 255

TagsOf(o) == IF o = "parse_radar_config_tlv_vec" THEN RadarConfigTlvType ELSE AnyTag

\* C1: for N >= 0 and a buffer that is the concatenation of N well-formed
\* records (with radar tags for the radar parser), the parser succeeds and
\* returns N records that are, in order, the records of the buffer, and the
\* sum of (2 + value length) over them is the buffer's length.
C1_WellFormedParses ==
    (/\ op \in TlvOps
     /\ args.no_of_params >= 0
     /\ IsTlvConcat(args.no_of_params, args.byte_array, TagsOf(op)))
    => /\ ret.ok
       /\ Len(ret.val) = args.no_of_params
       /\ Encode(ret.val) = args.byte_array
       /\ SumTlvLen(ret.val) = Len(args.byte_array)

\* the scenario of the unit test: [0,1,1, 1,1,1] with count 2
C1_Witness ==
    /\ op = "parse_app_config_tlv_vec"
    /\ args = [no_of_params |-> 2, byte_array |-> <<0, 1, 1, 1, 1, 1>>]
    /\ ret = Ok(<<[cfg_id |-> 0, v |-> <<1>>], [cfg_id |-> 1, v |-> <<1>>]>>)

\* C2: for N >= 0 and a buffer that is not exactly the concatenation of N
\* well-formed records, both parsers fail with BadParameters.
C2_MalformedFails ==
    (/\ op \in TlvOps
     /\ args.no_of_params >= 0
     /\ ~IsTlvConcat(args.no_of_params, args.byte_array, AnyTag))
    => ret = Err(BadParameters)

\* one trailing byte after two well-formed records, count 2, by the radar
\* parser; fewer records than the count, by the app parser
C2_Witness ==
    \/ /\ op = "parse_radar_config_tlv_vec"
       /\ args = [no_of_params |-> 2, byte_array |-> <<0, 1, 1, 1, 1, 1, 255>>]
       /\ ret = Err(BadParameters)
    \/ /\ op = "parse_app_config_tlv_vec"
       /\ args = [no_of_params |-> 3, byte_array |-> <<0, 1, 1, 1, 1, 1>>]
       /\ ret = Err(BadParameters)

\* C3: for every record count, negative ones included, a successful parse
\* returns exactly `count` records and consumed the whole buffer.
C3_SuccessHasCountElements ==
    (op \in TlvOps /\ ret.ok)
    => /\ Len(ret.val) = args.no_of_params
       /\ SumTlvLen(ret.val) = Len(args.byte_array)

(***************************************************************************)
(* Properties of the phase list parser.                                    *)
(***************************************************************************)
\* the wire form of one PhaseList, 8 bytes
PhaseListBytes(p) ==
    <<p.session_handle % 256, (p.session_handle \div 256) % 256,
      (p.session_handle \div 65536) % 256, p.session_handle \div 16777216,
      p.start_slot_index % 256, p.start_slot_index \div 256,
      p.end_slot_index % 256, p.end_slot_index \div 256>>

\* number_of_phases * 8 = len, for the usizes of the model
PhasesMatch(number_of_phases, len) ==
    number_of_phases >= 0 /\ number_of_phases * 8 = len

\* C4: whenever number_of_phases * 8 differs from the buffer's length the
\* phase list parser fails with BadParameters.
C4_PhaseCountMismatchFails ==
    (/\ op = "parse_hybrid_config_phase_list_vec"
     /\ ~PhasesMatch(args.number_of_phases, Len(args.byte_array)))
    => ret = Err(BadParameters)

\* C5: for number_of_phases >= 0 and a buffer of number_of_phases * 8
\* bytes the parser succeeds with number_of_phases records, record i being
\* the one whose wire form is bytes [8i, 8i+8) of the buffer.
C5_PhaseListExact ==
    (/\ op = "parse_hybrid_config_phase_list_vec"
     /\ PhasesMatch(args.number_of_phases, Len(args.byte_array)))
    => /\ ret.ok
       /\ Len(ret.val) = args.number_of_phases
       /\ \A i \in 1 .. Len(ret.val) :
             PhaseListBytes(ret.val[i]) = SubSeq(args.byte_array, 8 * (i - 1) + 1, 8 * i)

\* two phases, bytes 1, 2, .., 16
C5_Witness ==
    /\ op = "parse_hybrid_config_phase_list_vec"
    /\ args = [number_of_phases |-> 2, byte_array |-> PatternBuffer(16, 1, 1)]
    /\ ret = Ok(<<[session_handle |-> 1 + 256 * 2 + 65536 * 3 + 16777216 * 4,
                   start_slot_index |-> 5 + 256 * 6,
                   end_slot_index |-> 7 + 256 * 8],
                  [session_handle |-> 9 + 256 * 10 + 65536 * 11 + 16777216 * 12,
                   start_slot_index |-> 13 + 256 * 14,
                   end_slot_index |-> 15 + 256 * 16]>>)

(***************************************************************************)
(* Properties of the multicast list update.                                *)
(*                                                                         *)
(* The resolver runs after Dispatcher::get_uci_manager has returned a      *)
(* manager, so its properties are stated for the calls in which the        *)
(* lookup succeeded.                                                       *)
(***************************************************************************)
McuLookedUp ==
    /\ op = "native_controller_multicast_list_update"
    /\ Dispatcher_get_uci_manager(dispatcher, args.chip_id).ok

\* the action the action byte stands for, "" if none
McuAction ==
    LET a == UpdateMulticastListAction_try_from(AsU8(args.action)) IN
    IF a.ok THEN a.val ELSE ""

KeyWidth == IF McuAction = "AddControleeWithShortSubSessionKey" THEN 16 ELSE 32

KeyedVariant ==
    IF McuAction = "AddControleeWithShortSubSessionKey"
    THEN "ShortSessionKey" ELSE "LongSessionKey"

McuKeyedAction ==
    McuAction \in {"AddControleeWithShortSubSessionKey",
                   "AddControleeWithLongSubSessionKey"}

\* the call has exactly k well-formed entries: 2k address bytes, k
\* sub-session ids, no_of_controlee = k
McuEntries(k) ==
    /\ Len(args.addresses) = 2 * k
    /\ Len(args.sub_session_ids) = k
    /\ args.no_of_controlee = k

\* the i-th address of the call
McuAddress(i) == SubSeq(args.addresses, 2 * i - 1, 2 * i)

\* exactly one manager operation was invoked: the multicast list update
\* of the requested chip with the action of the call
McuOneCall ==
    /\ Len(mgr_calls) = 1
    /\ mgr_calls[1].op = "session_update_controller_multicast_list"
    /\ mgr_calls[1].chip = args.chip_id
    /\ mgr_calls[1].action = McuAction
    /\ ret = args.mgr_ret

\* C6: under a short-key (long-key) add action with k entries and non-null
\* key material of exactly 16k (32k) bytes, the manager is handed a
\* ShortSessionKey (LongSessionKey) list of k entries in input order, entry
\* i holding address i, sub-session id i and key bytes [16i, 16i+16)
\* ([32i, 32i+32)).
C6_KeyedListExact ==
    \A k \in 0 .. (MaxControlee + 1) :
        (/\ McuLookedUp
         /\ McuKeyedAction
         /\ McuEntries(k)
         /\ args.sub_session_keys # NULL
         /\ Len(args.sub_session_keys.bytes) = KeyWidth * k)
        => /\ McuOneCall
           /\ mgr_calls[1].controlees.variant = KeyedVariant
           /\ Len(mgr_calls[1].controlees.list) = k
           /\ \A i \in 1 .. k :
                 LET e == mgr_calls[1].controlees.list[i] IN
                 /\ e.short_address = McuAddress(i)
                 /\ e.subsession_id = AsU32(args.sub_session_ids[i])
                 /\ e.subsession_key =
                      SubSeq(args.sub_session_keys.bytes,
                             KeyWidth * (i - 1) + 1, KeyWidth * i)

\* two entries with two short keys, and two entries with two long keys
C6_Witness ==
    /\ McuLookedUp
    /\ McuEntries(2)
    /\ args.sub_session_keys # NULL
    /\ Len(mgr_calls) = 1
    /\ Len(mgr_calls[1].controlees.list) = 2
    /\ \/ /\ McuAction = "AddControleeWithShortSubSessionKey"
          /\ Len(args.sub_session_keys.bytes) = 32
          /\ mgr_calls[1].controlees.variant = "ShortSessionKey"
          /\ mgr_calls[1].controlees.list[2].subsession_key = PatternBuffer(16, 17, 1)
       \/ /\ McuAction = "AddControleeWithLongSubSessionKey"
          /\ Len(args.sub_session_keys.bytes) = 64
          /\ mgr_calls[1].controlees.variant = "LongSessionKey"
          /\ mgr_calls[1].controlees.list[2].subsession_key = PatternBuffer(32, 33, 1)

\* C7: under a short-key (long-key) add action with non-null key material
\* whose length is not a multiple of 16 (32), the call fails with
\* BadParameters and invokes no manager operation, whatever the number of
\* entries and the key length.
C7_KeyLengthNotMultipleFails ==
    (/\ McuLookedUp
     /\ McuKeyedAction
     /\ args.sub_session_keys # NULL
     /\ Len(args.sub_session_keys.bytes) % KeyWidth # 0)
    => (ret = Err(BadParameters) /\ mgr_calls = <<>>)

\* the number of chunks of the key material of the call
McuKeyChunks == (Len(args.sub_session_keys.bytes) + KeyWidth - 1) \div KeyWidth

\* C8: under a keyed add action with non-null key material, if the number
\* of key chunks differs from the number of address/sub-session entries the
\* call fails with BadParameters and invokes no manager operation.
C8_KeyChunkCountMismatchFails ==
    (/\ McuLookedUp
     /\ McuKeyedAction
     /\ args.sub_session_keys # NULL
     /\ \/ McuKeyChunks # Len(args.sub_session_ids)
        \/ McuKeyChunks # Len(args.addresses) \div 2)
    => (ret = Err(BadParameters) /\ mgr_calls = <<>>)

\* C9: whenever the number of 2-byte addresses, the number of sub-session
\* ids and no_of_controlee (negative ones included) are not all equal, the
\* call fails with BadParameters and invokes no manager operation, for
\* every action byte.
C9_CardinalityMismatchFails ==
    (/\ McuLookedUp
     /\ ~(/\ Len(args.addresses) \div 2 = Len(args.sub_session_ids)
          /\ Len(args.sub_session_ids) = args.no_of_controlee))
    => (ret = Err(BadParameters) /\ mgr_calls = <<>>)

\* two addresses and two ids declared as three controlees, under a valid
\* action; or a negative no_of_controlee with empty arrays
C9_Witness ==
    /\ McuLookedUp
    /\ McuAction = "AddControlee"
    /\ ret = Err(BadParameters)
    /\ mgr_calls = <<>>
    /\ \/ /\ Len(args.addresses) = 4
          /\ Len(args.sub_session_ids) = 2
          /\ args.no_of_controlee = 3
       \/ /\ Len(args.addresses) = 0
          /\ Len(args.sub_session_ids) = 0
          /\ args.no_of_controlee = -1

\* C10: for the plain AddControlee and RemoveControlee actions the manager
\* is handed the NoSessionKey variant, with or without key material, of
\* exactly k entries, entry i being (address i, sub-session id i), in input
\* order and with duplicates kept.
C10_PlainActionNoSessionKey ==
    \A k \in 0 .. (MaxControlee + 1) :
        (/\ McuLookedUp
         /\ McuAction \in {"AddControlee", "RemoveControlee"}
         /\ McuEntries(k))
        => /\ McuOneCall
           /\ mgr_calls[1].controlees.variant = "NoSessionKey"
           /\ Len(mgr_calls[1].controlees.list) = k
           /\ \A i \in 1 .. k :
                 mgr_calls[1].controlees.list[i] =
                     [short_address |-> McuAddress(i),
                      subsession_id |-> AsU32(args.sub_session_ids[i])]

\* addresses [[1,2],[3,4]], sub-session ids [10,20], plain add, with key
\* material supplied all the same
C10_Witness ==
    /\ McuLookedUp
    /\ args.action = 0
    /\ args.addresses = <<1, 2, 3, 4>>
    /\ args.sub_session_ids = <<10, 20>>
    /\ args.sub_session_keys # NULL
    /\ Len(args.sub_session_keys.bytes) = 32
    /\ Len(mgr_calls) = 1
    /\ mgr_calls[1].controlees =
         [variant |-> "NoSessionKey",
          list |-> <<[short_address |-> <<1, 2>>, subsession_id |-> [hi |-> 0, lo |-> 10]],
                     [short_address |-> <<3, 4>>, subsession_id |-> [hi |-> 0, lo |-> 20]]>>]

\* C11: under a short-key or long-key add action without key material
\* (null key array) the manager is handed the NoSessionKey variant with all
\* k entries in input order, together with the keyed action of the call.
C11_KeyedActionWithoutKeys ==
    \A k \in 0 .. (MaxControlee + 1) :
        (/\ McuLookedUp
         /\ McuKeyedAction
         /\ McuEntries(k)
         /\ args.sub_session_keys = NULL)
        => /\ McuOneCall
           /\ mgr_calls[1].action \in {"AddControleeWithShortSubSessionKey",
                                       "AddControleeWithLongSubSessionKey"}
           /\ mgr_calls[1].controlees.variant = "NoSessionKey"
           /\ Len(mgr_calls[1].controlees.list) = k
           /\ \A i \in 1 .. k :
                 mgr_calls[1].controlees.list[i] =
                     [short_address |-> McuAddress(i),
                      subsession_id |-> AsU32(args.sub_session_ids[i])]

\* two entries, long-key add, no key array
C11_Witness ==
    /\ McuLookedUp
    /\ args.action = 3
    /\ args.sub_session_keys = NULL
    /\ args.addresses = <<1, 2, 3, 4>>
    /\ args.sub_session_ids = <<10, 20>>
    /\ Len(mgr_calls) = 1
    /\ mgr_calls[1].action = "AddControleeWithLongSubSessionKey"
    /\ mgr_calls[1].controlees =
         [variant |-> "NoSessionKey",
          list |-> <<[short_address |-> <<1, 2>>, subsession_id |-> [hi |-> 0, lo |-> 10]],
                     [short_address |-> <<3, 4>>, subsession_id |-> [hi |-> 0, lo |-> 20]]>>]

\* the bytes that stand for an UpdateMulticastListAction
UpdateMulticastListActions == 0 .. 3

\* C12: an action byte that is no UpdateMulticastListAction makes the call
\* fail with BadParameters without any manager operation, whatever the
\* other inputs are.
C12_UnknownActionFails ==
    (McuLookedUp /\ AsU8(args.action) \notin UpdateMulticastListActions)
    => (ret = Err(BadParameters) /\ mgr_calls = <<>>)

\* action byte 4 with two consistent entries and two short keys
C12_Witness ==
    /\ McuLookedUp
    /\ args.action = 4
    /\ McuEntries(2)
    /\ args.sub_session_keys # NULL
    /\ Len(args.sub_session_keys.bytes) = 32
    /\ ret = Err(BadParameters)
    /\ mgr_calls = <<>>

(***************************************************************************)
(* Properties of the command facade.                                       *)
(***************************************************************************)
\* a facade function was called and the lookup of its manager succeeded
FacadeLookedUp ==
    /\ op # "none"
    /\ op = args.fn
    /\ Dispatcher_get_uci_manager(dispatcher, args.chip_id).ok

\* a TLV buffer that is not no_of_params records laid end to end
TlvMalformed(no_of_params, buf, tags) ==
    \/ no_of_params >= 0 /\ ~IsTlvConcat(no_of_params, buf, tags)
    \/ no_of_params < 0 /\ buf # <<>>

\* the controlee arrays of a multicast update the resolver refuses
ControleesRefused ==
    LET k == Len(args.sub_session_ids) IN
    \/ Len(args.addresses) \div 2 # k
    \/ args.no_of_controlee # k
    \/ AsU8(args.action) \notin UpdateMulticastListActions
    \/ /\ McuKeyedAction
       /\ args.sub_session_keys # NULL
       /\ Len(args.sub_session_keys.bytes) % KeyWidth # 0
       /\ McuKeyChunks <= k

\* the arguments of the call are among those the function's validation refuses
FacadeRejects ==
    CASE args.fn = "native_session_init" ->
             AsU8(args.session_type) \notin SessionType
      [] args.fn = "native_set_app_configurations" ->
             TlvMalformed(args.no_of_params, args.byte_array, AnyTag)
      [] args.fn = "native_set_radar_app_configurations" ->
             TlvMalformed(args.no_of_params, args.byte_array, RadarConfigTlvType)
      [] args.fn = "native_set_hybrid_session_configurations" ->
             /\ args.number_of_phases >= 0
             /\ \/ Len(args.phase_list) % 8 # 0
                \/ Len(args.update_time) # 8
      [] args.fn = "native_get_app_configurations" ->
             \E j \in 1 .. Len(args.byte_array) : args.byte_array[j] \notin AppConfigTlvType
      [] args.fn = "native_controller_multicast_list_update" -> ControleesRefused
      [] args.fn = "native_set_country_code" ->
             \/ Len(args.country_code) # 2
             \/ ~CountryCode_new(args.country_code).ok
      [] OTHER -> FALSE

\* C13: whenever a facade call is refused by the validation of its
\* arguments (malformed TLV buffer, bad phase list or update time, undefined
\* config id or action, bad controlee arrays, bad country code) it returns
\* BadParameters and no manager operation has been invoked.
C13_ValidationFailureIsBadParameters ==
    (/\ op # "none"
     /\ FacadeLookedUp \/ args.fn = "native_session_init"
     /\ FacadeRejects)
    => (ret = Err(BadParameters) /\ mgr_calls = <<>>)

C13_Witness ==
    /\ op = "native_set_app_configurations"
    /\ dispatcher = LiveDispatcher({Chip})
    /\ args.chip_id = Chip
    /\ args.no_of_params = 2
    /\ args.byte_array = <<0, 1, 255, 1>>
    /\ ret = Err(BadParameters)
    /\ mgr_calls = <<>>

\* C18: every facade call whose chip identifier is not in the registry of
\* the Live Dispatcher returns BadParameters, every call without a Live
\* Dispatcher returns an error other than BadParameters, and neither
\* invokes a manager operation.
C18_LookupFailureErrors ==
    (op # "none") =>
        /\ (dispatcher.state = "Live" /\ args.chip_id \notin dispatcher.chips)
               => (ret = Err(BadParameters) /\ mgr_calls = <<>>)
        /\ (dispatcher.state # "Live")
               => (~ret.ok /\ ret.err # BadParameters /\ mgr_calls = <<>>)

\* the manager operation each facade function ends in
ManagerOperation(fn) ==
    CASE fn = "native_do_initialize" -> "open_hal"
      [] fn = "native_do_deinitialize" -> "close_hal"
      [] fn = "native_device_reset" -> "device_reset"
      [] fn = "native_session_init" -> "session_init"
      [] fn = "native_session_deinit" -> "session_deinit"
      [] fn = "native_get_session_count" -> "session_get_count"
      [] fn = "native_ranging_start" -> "range_start"
      [] fn = "native_ranging_stop" -> "range_stop"
      [] fn = "native_get_session_state" -> "session_get_state"
      [] fn = "native_set_app_configurations" -> "session_set_app_config"
      [] fn = "native_set_radar_app_configurations" -> "android_set_radar_config"
      [] fn = "native_set_hybrid_session_configurations" -> "session_set_hybrid_config"
      [] fn = "native_get_app_configurations" -> "session_get_app_config"
      [] fn = "native_get_caps_info" -> "core_get_caps_info"
      [] fn = "native_controller_multicast_list_update" ->
             "session_update_controller_multicast_list"
      [] fn = "native_set_country_code" -> "android_set_country_code"
      [] fn = "native_send_raw_vendor_cmd" -> "raw_uci_cmd"
      [] fn = "native_get_power_stats" -> "android_get_power_stats"
      [] fn = "native_set_ranging_rounds_dt_tag" -> "session_update_dt_tag_ranging_rounds"
      [] fn = "native_send_data" -> "send_data_packet"
      [] fn = "native_query_data_size" -> "session_query_max_data_size"
      [] fn = "native_session_data_transfer_phase_config" ->
             "session_data_transfer_phase_config"
      [] fn = "native_query_time_stamp" -> "core_query_uwb_timestamp"
      [] fn = "native_get_session_token" -> "get_session_token"

\* the call went past the lookup and the validation of its arguments
FacadeAccepted ==
    /\ FacadeLookedUp
    /\ ~FacadeRejects
    /\ ~(/\ args.fn = "native_set_hybrid_session_configurations"
         /\ CapacityOverflow(args.number_of_phases))

\* C19: every facade call whose lookup and validation succeed invokes
\* exactly one manager operation, the one of its function, on the manager
\* of the requested chip, and returns that operation's result unchanged.
C19_ExactlyOneManagerOperation ==
    FacadeAccepted
    => /\ Len(mgr_calls) = 1
       /\ mgr_calls[1].op = ManagerOperation(args.fn)
       /\ mgr_calls[1].chip = args.chip_id
       /\ ret = args.mgr_ret

C19_Witness ==
    /\ op = "native_send_data"
    /\ dispatcher = LiveDispatcher({Chip})
    /\ args.chip_id = Chip
    /\ args.mgr_ret = Err("Timeout")
    /\ ret = Err("Timeout")
    /\ Len(mgr_calls) = 1
    /\ mgr_calls[1].op = "send_data_packet"
    /\ mgr_calls[1].chip = Chip

(***************************************************************************)
(* Properties of the Dispatcher lifecycle.                                 *)
(***************************************************************************)
\* C14: a create (nativeDispatcherNew) issued while a Dispatcher is Live
\* returns the null handle and leaves the Live instance and its registry as
\* they were, so that the lookup of each of its chips still succeeds.
C14_SingleInstance ==
    [][(/\ op' = "nativeDispatcherNew"
        /\ dispatcher.state = "Live")
       => (/\ ret' = NullHandle
           /\ dispatcher' = dispatcher
           /\ \A c \in dispatcher.chips : Dispatcher_get_uci_manager(dispatcher', c).ok)]_vars

C14_Witness ==
    /\ op = "nativeDispatcherNew"
    /\ args.jvm_captured
    /\ ret = NullHandle
    /\ dispatcher.state = "Live"
    /\ Len(issued) = 1
    /\ dispatcher.ptr = issued[1]

\* C15: while a Dispatcher is Live, native_dispatcher_destroy with a handle
\* other than the one of the Live instance fails with BadParameters and
\* leaves the Dispatcher Live with its registry untouched.
C15_DestroyRejectsOtherHandle ==
    [][(/\ op' = "native_dispatcher_destroy"
        /\ dispatcher.state = "Live"
        /\ args'.mDispatcherPointer # issued[Len(issued)])
       => (/\ ret' = Err(BadParameters)
           /\ dispatcher' = dispatcher)]_vars

C15_Witness ==
    /\ op = "native_dispatcher_destroy"
    /\ dispatcher.state = "Live"
    /\ args.mDispatcherPointer # issued[Len(issued)]
    /\ args.mDispatcherPointer # NullHandle
    /\ ret = Err(BadParameters)

StateErrors == {"NotInitialized", "AlreadyDestroyed"}

LifecycleFacade == {"native_do_initialize", "native_send_data"}

\* C16: native_dispatcher_destroy with the handle of the Live instance
\* succeeds and leaves Live; after it every facade call fails with a state
\* error, a second destroy fails, neither changes the state, and a create
\* succeeds.
C16_DestroyAccepts ==
    [][/\ (/\ op' = "native_dispatcher_destroy"
           /\ dispatcher.state = "Live"
           /\ args'.mDispatcherPointer = issued[Len(issued)])
          => (ret' = Ok(<<>>) /\ dispatcher'.state = "Destroyed")
       /\ (dispatcher.state = "Destroyed" /\ op' \in LifecycleFacade)
          => (/\ ~ret'.ok
              /\ ret'.err \in StateErrors
              /\ mgr_calls' = <<>>
              /\ dispatcher' = dispatcher)
       /\ (dispatcher.state = "Destroyed" /\ op' = "native_dispatcher_destroy")
          => (/\ ~ret'.ok
              /\ ret'.err \in StateErrors
              /\ dispatcher' = dispatcher)
       /\ (/\ dispatcher.state = "Destroyed"
           /\ op' = "nativeDispatcherNew"
           /\ args'.jvm_captured)
          => (ret' # NullHandle /\ dispatcher'.state = "Live")]_vars

\* C17: the handles returned by successive successful creates are pairwise
\* different, so that the handle of a destroyed instance never equals the
\* handle of a later one.
C17_HandlesUnique ==
    \A i, j \in 1 .. Len(issued) : i < j => issued[i] # issued[j]

(***************************************************************************)
(* Properties of the lifecycle under concurrent calls.                     *)
(***************************************************************************)
\* C20: a destroy call never tears down an instance whose handle differs
\* from the handle the call presented.
C20_DestroyAtomic ==
    \A t \in Threads :
        threads[t].torn # 0 => issued[threads[t].torn] = threads[t].hdl

\* C21: a native_dispatcher_new call that constructed an instance and
\* reports success returns the handle of that instance, and one that
\* reports failure has left no Live instance of its own.
C21_NewReturnsOwnHandle ==
    \A t \in Threads :
        (threads[t].pc = "done" /\ threads[t].made # 0)
        => /\ threads[t].res # NullHandle => threads[t].res = issued[threads[t].made]
           /\ threads[t].res = NullHandle
                  => ~(dispatcher.state = "Live" /\ Len(issued) = threads[t].made)

ParsingFacade ==
    {"native_set_app_configurations", "native_set_radar_app_configurations",
     "native_set_hybrid_session_configurations",
     "native_controller_multicast_list_update", "native_set_country_code"}

\* C23: in the facade functions that parse caller input, a call whose
\* input the validation refuses returns BadParameters without a manager
\* operation, whether or not the chip is known and a Dispatcher is Live.
C23_ValidationBeforeLookup ==
    (op \in ParsingFacade /\ op = args.fn /\ FacadeRejects)
    => (ret = Err(BadParameters) /\ mgr_calls = <<>>)

\* C24: an address array whose length is not 2 * no_of_controlee, a
\* trailing odd byte included, makes the multicast list update fail with
\* BadParameters without a manager operation.
C24_AddressLengthExact ==
    (McuLookedUp /\ Len(args.addresses) # 2 * args.no_of_controlee)
    => (ret = Err(BadParameters) /\ mgr_calls = <<>>)

\* C25: in every successful native_set_hybrid_session_configurations call
\* the number_of_phases handed to the manager equals the number of
\* PhaseList records handed to it.
C25_PhaseCountMatchesRecords ==
    (/\ op = "native_set_hybrid_session_configurations"
     /\ ret.ok
     /\ Len(mgr_calls) = 1)
    => mgr_calls[1].params[2] = Len(mgr_calls[1].params[4])

(***************************************************************************)
(* Properties of the entry points that convert a numeric result.           *)
(***************************************************************************)
\* the lookup succeeded and the manager returned a value
EntrySucceeded ==
    /\ Dispatcher_get_uci_manager(dispatcher, args.chip_id).ok
    /\ args.mgr_ret.ok

\* C26: nativeGetSessionCount returns -1 exactly when the operation failed;
\* when it succeeded the returned byte is non-negative and equal to the
\* count the manager returned.
C26_SessionCountMinusOneIffFailed ==
    (op = "nativeGetSessionCount")
    => /\ ret.ok
       /\ ret.val = -1 <=> ~EntrySucceeded
       /\ EntrySucceeded => (ret.val >= 0 /\ ret.val = args.mgr_ret.val)

\* C27: nativeQueryDataSize and nativeQueryUwbTimestamp return normally,
\* with the value the manager returned when the operation succeeded and
\* with 0 when it failed.
C27_QueriesNeverPanic ==
    (op \in {"nativeQueryDataSize", "nativeQueryUwbTimestamp"})
    => /\ ret.ok
       /\ EntrySucceeded => ret.val = args.mgr_ret.val
       /\ ~EntrySucceeded
              => ret.val = IF op = "nativeQueryDataSize" THEN 0 ELSE ZeroJlong

====
